---- MODULE Spec2Model ----
(***************************************************************************)
(* Model of the job-application intake pipeline (src/main.py) and of its   *)
(* SQLAlchemy store (src/database.py).                                     *)
(*                                                                         *)
(* A request is taken through process_application one stage at a time.     *)
(* Every call to an external capability (file system, document readers,    *)
(* ollama, SentenceTransformer, resend, the sqlite commit) has its         *)
(* outcomes chosen nondeterministically: it returns, or it raises.         *)
(* Texts are tuples of tokens, file names and model answers are tuples of  *)
(* characters, scores are integers counted in hundredths of a point.       *)
(***************************************************************************)
EXTENDS Integers, Sequences, FiniteSets, TLC

\* ------------------------------------------------------------------ bounds
MaxRecords == 2     \* requests are admitted while the applications table has fewer rows
MaxLiveRecords == 1 \* the same, where termination is checked
MaxLogs == 1        \* requests are admitted while the error_logs table has fewer rows

\* ------------------------------------------------------- program constants
Threshold == 7000   \* `score >= 70`, in hundredths

Procs == {1, 2}     \* request handlers

\* --------------------------------------------------------------- strings
StartsWith(s, prefix) ==
    /\ Len(s) >= Len(prefix)
    /\ SubSeq(s, 1, Len(prefix)) = prefix

EndsWith(s, suffix) ==
    /\ Len(s) >= Len(suffix)
    /\ SubSeq(s, Len(s) - Len(suffix) + 1, Len(s)) = suffix

LowerChar(c) ==
    CASE c = "P" -> "p" [] c = "D" -> "d" [] c = "F" -> "f"
      [] c = "T" -> "t" [] c = "R" -> "r" [] c = "U" -> "u" [] c = "E" -> "e"
      [] OTHER -> c

Lower(s) == [i \in DOMAIN s |-> LowerChar(s[i])]

\* str.strip() on a tuple of characters: blanks are dropped at both ends
RECURSIVE LStrip(_)
LStrip(s) == IF s # <<>> /\ Head(s) = " " THEN LStrip(Tail(s)) ELSE s

RECURSIVE RStrip(_)
RStrip(s) ==
    IF s # <<>> /\ s[Len(s)] = " " THEN RStrip(SubSeq(s, 1, Len(s) - 1)) ELSE s

Strip(s) == RStrip(LStrip(s))

DotPdf == <<".", "p", "d", "f">>
DotDocx == <<".", "d", "o", "c", "x">>

\* ---------------------------------------------------------------- inputs
FileNames ==
    { <<"a", ".", "p", "d", "f">>,
      <<"a", ".", "P", "D", "F">>,
      <<"a", ".", "d", "o", "c", "x">>,
      <<"a", ".", "t", "x", "t">> }

\* what the readers extract from the uploaded bytes (already stripped)
ResumeA1 == <<"Jane", "a@x.io", "Python">>
ResumeA2 == <<"Jane", "a@x.io", "Go">>
NoEmailText == <<"Jane", "no", "contact">>
Texts == {ResumeA1, ResumeA2, NoEmailText}
Corrupt == <<"corrupt">>
Contents == Texts \cup {Corrupt}

JobDescriptions == { <<"backend", "role">>, <<"data", "role">> }

\* answers of the classification model (response['message']['content'])
AnsTrue == <<"t", "r", "u", "e">>
ClassifierAnswers ==
    { AnsTrue,
      <<"T", "r", "u", "e">>,
      <<" ", "t", "r", "u", "e", " ">>,
      <<"t", "r", "u", "e", ".">>,
      <<"f", "a", "l", "s", "e">> }

\* texts the summarizer model may answer with, and str(e) of what it may raise
FailedToExtract == <<"Failed", "to", "extract">>
SummarySentinel ==
    <<"Failed", "to", "extract", "requirements:", "No", "response", "from", "model">>
GoodSummary == <<"Looking", "for", "Python">>
SummaryAnswers == { GoodSummary, <<"Error", "in", "input">>, <<>> }
ExceptionTexts == { <<"connection", "refused">>, <<"Error", "connecting">> }

\* cosine similarity times 100, in thousandths of a point, as the embedding
\* capability produces it for the requests of the pipeline: either side of 70
Similarities == { 69994, 69996 }

NoScore == -1
NoText == <<"none">>
EmailTokens == {"a@x.io"}

NoMessage == <<"no", "message">>     \* a response without a 'message' key
Raises == <<"raises">>               \* the capability call raises

VARIABLES
    apps,        \* the applications table, in rowid order
    error_logs,  \* number of rows of the error_logs table
    decided,     \* per row of apps: the score, email_status and message of the response
                 \* that was returned by the request that inserted the row
    req          \* per handler: position in process_application, its locals, its response

vars == <<apps, error_logs, decided, req>>

\* --------------------------------------------------------------- responses
NoResp ==
    [kind |-> "none", status |-> 0, detail |-> "", email |-> "",
     score |-> NoScore, email_status |-> FALSE, message |-> <<>>]

ErrResp(status, detail) ==
    [kind |-> "error", status |-> status, detail |-> detail, email |-> "",
     score |-> NoScore, email_status |-> FALSE, message |-> <<>>]

OkResp(email, score, email_status, message) ==
    [kind |-> "ok", status |-> 200, detail |-> "", email |-> email,
     score |-> score, email_status |-> email_status, message |-> message]

\* a direct call of one of the registered tools: what the capability answered
\* (answer, job_summary and similarity are inputs) and how the tool ended
NoCall ==
    [name |-> "", answer |-> <<>>, job_summary |-> NoText, embedded |-> FALSE,
     similarity |-> 0, ended |-> "", bool |-> FALSE, value |-> NoScore]

IdleReq ==
    [pc |-> "idle", filename |-> <<>>, content |-> NoText, job_description |-> NoText,
     file_path |-> <<>>,   \* the file written under uploads/, <<>> before that
     resume_content |-> NoText, email |-> "", job_summary |-> NoText,
     existing_app |-> 0,   \* rowid the exact-match lookup returned, 0 for None
     score |-> NoScore, email_sent |-> FALSE, email_message |-> <<>>,
     resp |-> NoResp,
     \* bookkeeping of what the request has done so far
     exit_stage |-> "",    \* the stage the response was returned from
     saved |-> "",         \* how the commit of save_application ended
     calls |-> <<>>,       \* store and capability functions invoked, in order
     nlogs |-> 0,          \* error_logs rows this request has appended
     logfails |-> 0,       \* insert_error_log calls of this request that raised
     orig |-> 0,           \* status the failure maps to when every log write commits
     leafRaised |-> {},    \* leaf components that raised instead of returning
     tool |-> NoCall]      \* the last direct call of a tool at this handler

\* ------------------------------------------------- exits of process_application
\* An exit: the status and detail of the response, the rows appended to
\* error_logs on the way (n) and the insert_error_log calls that raised (f).
Exit(status, detail, n, f) == [status |-> status, detail |-> detail, n |-> n, f |-> f]

\* insert_error_log: the row is there only when the commit went through; when
\* the commit raises the exception leaves insert_error_log (there is no except)
Logged(l) == IF l THEN 1 ELSE 0
NotLogged(l) == IF l THEN 0 ELSE 1

\* main.py 481-487: any exception that is not an HTTPException
OuterCatch(lo, n, f) ==
    Exit(500, "Error occurred during processing the job application",
         n + Logged(lo), f + NotLogged(lo))

\* main.py 473-477: exception inside the lookup..persist block, not logged
InnerCatch(n, f) == Exit(500, "Internal server error", n, f)

\* `insert_error_log(..); raise HTTPException(status)` in the outer try block
ReportOuter(status, detail, l, lo, n, f) ==
    IF l THEN Exit(status, detail, n + 1, f) ELSE OuterCatch(lo, n, f + 1)

\* the same inside the lookup..persist block (except clauses at 420 and 435)
ReportInner(status, detail, l, n, f) ==
    IF l THEN Exit(status, detail, n + 1, f) ELSE InnerCatch(n, f + 1)

\* the request p, in state r, ends with the error exit o
EndError(p, r, o, orig) ==
    /\ req' = [req EXCEPT ![p] =
                 [r EXCEPT !.pc = "done",
                           !.exit_stage = r.pc,
                           !.resp = ErrResp(o.status, o.detail),
                           !.nlogs = @ + o.n,
                           !.logfails = @ + o.f,
                           !.orig = orig]]
    /\ error_logs' = error_logs + o.n

Called(r, f) == [r EXCEPT !.calls = Append(@, f)]

Count(seq, x) == Cardinality({i \in DOMAIN seq : seq[i] = x})

\* ------------------------------------------------------------------ store
Application(email, resume_content, job_description, score, email_status) ==
    [email |-> email, resume_content |-> resume_content,
     job_description |-> job_description, score |-> score,
     email_status |-> email_status]

Matches(a, email, resume_content, job_description) ==
    /\ a.email = email
    /\ a.resume_content = resume_content
    /\ a.job_description = job_description

\* .first(): the row with the smallest rowid among those the filter keeps, 0 for None
First(S) == IF S = {} THEN 0 ELSE CHOOSE i \in S : \A j \in S : i <= j

get_exact_application_match(table, email, resume_content, job_description) ==
    First({i \in DOMAIN table : Matches(table[i], email, resume_content, job_description)})

\* an update that drops its status argument and clears the flag
update_email_status_clears(table, email, status) ==
    LET i == First({k \in DOMAIN table : table[k].email = email})
    IN  IF i = 0 THEN table ELSE [table EXCEPT ![i].email_status = FALSE]

\* database.py 81-94 with the commit going through
update_email_status(table, email, status) ==
    LET i == First({k \in DOMAIN table : table[k].email = email})
    IN  IF i = 0 THEN table ELSE [table EXCEPT ![i].email_status = status]

\* a store with a uniqueness constraint on the triple: the duplicate is not added
save_application_unique(table, email, resume_content, job_description, score, email_status) ==
    IF get_exact_application_match(table, email, resume_content, job_description) # 0
    THEN table
    ELSE Append(table,
                Application(email, resume_content, job_description, score, email_status))

\* database.py 39-51 with the commit going through
save_application(table, email, resume_content, job_description, score, email_status) ==
    Append(table, Application(email, resume_content, job_description, score, email_status))

\* ------------------------------------------------------------------- Init
Init ==
    /\ apps = <<>>
    /\ error_logs = 0
    /\ decided = <<>>
    /\ req = [p \in Procs |-> IdleReq]

\* ---------------------------------------------------------------- request
\* A request arrives at handler p. New decisions are admitted while the tables
\* are below their bounds; a resubmission of a stored resume and job
\* description is admitted as long as the error log is.
Arrives(p, limit) ==
    /\ req[p].pc = "idle"
    /\ error_logs < MaxLogs
    /\ \E fn \in FileNames, c \in Contents, jd \in JobDescriptions :
         /\ \/ Len(apps) < limit
            \/ \E i \in DOMAIN apps :
                 apps[i].resume_content = c /\ apps[i].job_description = jd
         /\ req' = [req EXCEPT ![p] =
                      [IdleReq EXCEPT !.pc = "gate", !.filename = fn,
                                      !.content = c, !.job_description = jd]]
    /\ UNCHANGED <<apps, error_logs, decided>>

Submit(p) == Arrives(p, MaxRecords)

\* main.py 349: file.filename.lower().endswith(('.pdf', '.docx'))
AcceptedFormat(filename) ==
    EndsWith(Lower(filename), DotPdf) \/ EndsWith(Lower(filename), DotDocx)

\* main.py 349-354
FormatGate(p) ==
    /\ req[p].pc = "gate"
    /\ IF AcceptedFormat(req[p].filename)
       THEN /\ req' = [req EXCEPT ![p].pc = "upload"]
            /\ UNCHANGED error_logs
       ELSE \E l \in BOOLEAN, lo \in BOOLEAN :
              EndError(p, req[p],
                       ReportOuter(400, "Invalid file format", l, lo, 0, 0), 400)
    /\ UNCHANGED <<apps, decided>>

\* main.py 356-367
SaveUpload(p) ==
    /\ req[p].pc = "upload"
    /\ \E outcome \in {"written", "makedirs raises", "write raises"} :
         \E l \in BOOLEAN, lo \in BOOLEAN :
           CASE outcome = "written" ->
                  /\ req' = [req EXCEPT ![p].pc = "extract",
                                        ![p].file_path = <<"uploads/">> \o req[p].filename]
                  /\ UNCHANGED error_logs
             [] outcome = "makedirs raises" ->
                  EndError(p, req[p], OuterCatch(lo, 0, 0), 500)
             [] outcome = "write raises" ->
                  EndError(p, req[p],
                       ReportOuter(500, "Failed to save uploaded file", l, lo, 0, 0), 500)
    /\ UNCHANGED <<apps, decided>>

\* main.py 57-70: the reader extract_text picks, from the case-sensitive suffix
Reader(filename) ==
    IF EndsWith(filename, DotPdf) THEN "pdf"
    ELSE IF EndsWith(filename, DotDocx) THEN "docx"
    ELSE "unsupported"

\* what extract_text raises before its except clause logs and re-raises:
\* ValueError for an unsupported suffix, and for unreadable bytes whatever the
\* reader (fitz, python-docx) raises, a ValueError or another exception type
ExtractRaises(filename, content) ==
    IF Reader(filename) = "unsupported" THEN {"ValueError"}
    ELSE IF content = Corrupt THEN {"ValueError", "Other"}
    ELSE {"none"}

\* main.py 369-382 around extract_text: exception type e, l1 the log write of
\* extract_text (67-70), l2 that of the except clause taken, lo that of 481-487
ExtractExit(e, l1, l2, lo) ==
    LET raised == IF l1 THEN e ELSE "Other"   \* a failed log write replaces e
    IN  IF raised = "ValueError"
        THEN ReportOuter(400, "Unsupported file format or value error",
                         l2, lo, Logged(l1), NotLogged(l1))
        ELSE ReportOuter(422, "Failed to extract text from resume",
                         l2, lo, Logged(l1), NotLogged(l1))

Extract(p) ==
    /\ req[p].pc = "extract"
    /\ \E e \in ExtractRaises(req[p].file_path, req[p].content) :
         IF e = "none"
         THEN /\ req' = [req EXCEPT ![p].pc = "classify",
                                    ![p].resume_content = req[p].content]
              /\ UNCHANGED error_logs
         ELSE \E l1 \in BOOLEAN, l2 \in BOOLEAN, lo \in BOOLEAN :
                EndError(p, req[p], ExtractExit(e, l1, l2, lo),
                         ExtractExit(e, TRUE, TRUE, TRUE).status)
    /\ UNCHANGED <<apps, decided>>

\* main.py 307-311: the answer of the classification model, as validate_resume reads it
IsTrueAnswer(answer) ==
    IF answer = NoMessage THEN FALSE ELSE Lower(Strip(answer)) = AnsTrue

\* main.py 384-389 with validate_resume (274-315): l1 is the log write of
\* validate_resume's except clause, l2 that of line 385, lo that of 481-487
ClassifyExit(answer, l1, l2, lo) ==
    IF answer = Raises
    THEN IF l1 THEN ReportOuter(400, "not a resume", l2, lo, 1, 0)
         ELSE OuterCatch(lo, 0, 1)      \* validate_resume itself raises
    ELSE ReportOuter(400, "not a resume", l2, lo, 0, 0)

Classify(p) ==
    /\ req[p].pc = "classify"
    /\ \E answer \in ClassifierAnswers \cup {NoMessage, Raises} :
         IF answer # Raises /\ IsTrueAnswer(answer)
         THEN /\ req' = [req EXCEPT ![p].pc = "email"]
              /\ UNCHANGED error_logs
         ELSE \E l1 \in BOOLEAN, l2 \in BOOLEAN, lo \in BOOLEAN :
                EndError(p,
                         IF answer = Raises /\ ~l1
                         THEN [req[p] EXCEPT !.leafRaised = @ \cup {"validate_resume"}]
                         ELSE req[p],
                         ClassifyExit(answer, l1, l2, lo), 400)
    /\ UNCHANGED <<apps, decided>>

\* main.py 172-173: re.search(r'[\w\.-]+@[\w\.-]+', text), first match or ""
RECURSIVE extract_email(_)
extract_email(text) ==
    IF text = <<>> THEN ""
    ELSE IF Head(text) \in EmailTokens THEN Head(text)
    ELSE extract_email(Tail(text))

\* main.py 391-397
FindEmail(p) ==
    /\ req[p].pc = "email"
    /\ LET email == extract_email(req[p].resume_content)
       IN  IF email # ""
           THEN /\ req' = [req EXCEPT ![p].pc = "lookup", ![p].email = email]
                /\ UNCHANGED error_logs
           ELSE \E l \in BOOLEAN, lo \in BOOLEAN :
                  EndError(p, req[p],
                           ReportOuter(400, "No email address found in resume",
                                       l, lo, 0, 0), 400)
    /\ UNCHANGED <<apps, decided>>

RetrievedMessage == <<"Retrieved existing application score from database">>

\* a hit that answers with the flag of a fresh decision instead of the stored one
ExistingResponse_freshStatus(email, existing_app) ==
    OkResp(email, existing_app.score, FALSE, RetrievedMessage)

\* main.py 404-410: the response built from the row the lookup found
ExistingResponse(email, existing_app) ==
    OkResp(email, existing_app.score, existing_app.email_status, RetrievedMessage)

\* main.py 399-410
Lookup(p) ==
    /\ req[p].pc = "lookup"
    /\ LET r == Called(req[p], "get_exact_application_match")
       IN  \E returns \in BOOLEAN :     \* the query returns, or it raises
             IF ~returns
             THEN EndError(p, r, InnerCatch(0, 0), 500)
             ELSE LET i == get_exact_application_match(
                               apps, r.email, r.resume_content, r.job_description)
                  IN  /\ req' = [req EXCEPT ![p] =
                                   IF i # 0
                                   THEN [r EXCEPT !.pc = "done",
                                                  !.exit_stage = "lookup",
                                                  !.existing_app = i,
                                                  !.resp = ExistingResponse(r.email, apps[i])]
                                   ELSE [r EXCEPT !.pc = "summarize",
                                                  !.email_sent = FALSE,
                                                  !.email_message = <<>>]]
                      /\ UNCHANGED error_logs
    /\ UNCHANGED <<apps, decided>>

\* main.py 99-118: what generate_summary returns for the capability's outcome
\* (an answer, a response without message, or str(e) once the log is written)
generate_summary(outcome) ==
    IF outcome = NoMessage THEN SummarySentinel ELSE outcome

\* main.py 414: the only failure marker the orchestrator looks for
IsErrorSummary(job_summary) == StartsWith(job_summary, <<"Error">>)

\* main.py 412-425: l1 is the log write inside generate_summary (116-117),
\* l2 that of line 415, l3 that of the except clause at 420-425
SummarizeExit(raised, n1, l2, l3) ==
    IF raised
    THEN ReportInner(422, "Failed to generate job summary", l3, 0, 1)
    ELSE ReportInner(422, "Failed to generate job summary", l3,
                     n1 + Logged(l2), NotLogged(l2))

Summarize(p) ==
    /\ req[p].pc = "summarize"
    /\ \E outcome \in SummaryAnswers \cup {NoMessage} \cup ExceptionTexts,
          threw \in BOOLEAN, l1 \in BOOLEAN, l2 \in BOOLEAN, l3 \in BOOLEAN :
         /\ threw <=> outcome \in ExceptionTexts
         /\ LET r == Called(req[p], "generate_summary")
                raised == threw /\ ~l1
                n1 == IF threw /\ l1 THEN 1 ELSE 0
                job_summary == generate_summary(outcome)
            IN  IF raised \/ IsErrorSummary(job_summary)
                THEN EndError(p,
                              IF raised
                              THEN [r EXCEPT !.leafRaised = @ \cup {"generate_summary"}]
                              ELSE [r EXCEPT !.job_summary = job_summary],
                              SummarizeExit(raised, n1, l2, l3), 422)
                ELSE /\ req' = [req EXCEPT ![p] =
                                  [r EXCEPT !.pc = "score",
                                            !.job_summary = job_summary,
                                            !.nlogs = @ + n1]]
                     /\ error_logs' = error_logs + n1
    /\ UNCHANGED <<apps, decided>>

\* main.py 133: the summaries calculate_score does not embed
SkipsEmbedding(job_summary) ==
    job_summary = <<>> \/ StartsWith(job_summary, FailedToExtract)

\* main.py 152: round(min(100.0, max(0.0, similarity * 100)), 2), from
\* thousandths of a point to hundredths
Max(a, b) == IF a >= b THEN a ELSE b
Min(a, b) == IF a <= b THEN a ELSE b
\* the score without the upper clamp
FinalScore_noUpperClamp(similarity) == (Max(0, similarity) + 5) \div 10

FinalScore(similarity) == (Min(100000, Max(0, similarity)) + 5) \div 10

\* main.py 427-440: l1 is the log write inside calculate_score (156-157),
\* l2 that of line 430, l3 that of the except clause at 435-440
ScoreExit(l1, l2, l3) ==
    IF ~l1
    THEN ReportInner(422, "Failed to calculate score", l3, 0, 1)
    ELSE ReportInner(422, "Failed to calculate score", l3,
                     1 + Logged(l2), NotLogged(l2))

Score(p) ==
    /\ req[p].pc = "score"
    /\ LET r == Called(req[p], "calculate_score")
       IN  IF SkipsEmbedding(r.job_summary)
           THEN /\ req' = [req EXCEPT ![p] = [r EXCEPT !.pc = "notify", !.score = 0]]
                /\ UNCHANGED error_logs
           ELSE \E similarity \in Similarities, encodes \in BOOLEAN :
                  IF encodes
                  THEN /\ req' = [req EXCEPT ![p] =
                                    [Called(r, "encode") EXCEPT
                                        !.pc = "notify",
                                        !.score = FinalScore(similarity)]]
                       /\ UNCHANGED error_logs
                  ELSE \E l1 \in BOOLEAN, l2 \in BOOLEAN, l3 \in BOOLEAN :
                         EndError(p,
                                  IF l1 THEN Called(r, "encode")
                                  ELSE [Called(r, "encode") EXCEPT
                                           !.leafRaised = @ \cup {"calculate_score"}],
                                  ScoreExit(l1, l2, l3), 422)
    /\ UNCHANGED <<apps, decided>>

Passed == <<"Candidate has passed the eligibility for interview">>
AndSent == <<" and interview invitation sent successfully">>
ButFailed == <<", but failed to send the email">>
NotMet == <<"Candidate did not meet the minimum score requirement">>

\* a gate that leaves out the boundary
MeetsThreshold_strict(score) == score > Threshold

\* main.py 442: the threshold gate
MeetsThreshold(score) == score >= Threshold

\* main.py 442-454 with send_interview_invitation (220-240) and send_email
\* (192-206): l1 is the log write of send_email's except clause, l2 that of
\* send_interview_invitation's, l3 that of line 452; commits is the commit of
\* update_email_status
Notify(p) ==
    /\ req[p].pc = "notify"
    /\ IF ~MeetsThreshold(req[p].score)
       THEN /\ req' = [req EXCEPT ![p].pc = "persist", ![p].email_message = NotMet]
            /\ UNCHANGED <<apps, error_logs>>
       ELSE LET r == Called(Called(req[p], "send_interview_invitation"), "send_email")
            IN  \E sent \in BOOLEAN, commits \in BOOLEAN,
                   l1 \in BOOLEAN, l2 \in BOOLEAN, l3 \in BOOLEAN :
                  IF sent
                  THEN /\ apps' = IF commits
                                  THEN update_email_status(apps, r.email, TRUE)
                                  ELSE apps
                       /\ req' = [req EXCEPT ![p] =
                                    [Called(r, "update_email_status") EXCEPT
                                        !.pc = "persist",
                                        !.email_sent = TRUE,
                                        !.email_message = Passed \o AndSent]]
                       /\ UNCHANGED error_logs
                  ELSE IF l1 \/ l2 \/ l3
                  THEN \* the send failed and one of the three log writes went through
                       /\ req' = [req EXCEPT ![p] =
                                    [r EXCEPT
                                        !.pc = "persist",
                                        !.email_message = Passed \o ButFailed,
                                        !.nlogs = @ + 1,
                                        !.logfails = @ + (IF l1 THEN 0 ELSE IF l2 THEN 1 ELSE 2),
                                        !.leafRaised = IF l1 THEN @ ELSE @ \cup {"send_email"}]]
                       /\ error_logs' = error_logs + 1
                       /\ UNCHANGED apps
                  ELSE \* the log write of line 452 raises inside the except clause
                       /\ EndError(p,
                                   [r EXCEPT !.email_message = Passed \o ButFailed,
                                             !.leafRaised = @ \cup {"send_email"}],
                                   InnerCatch(0, 3), 0)
                       /\ UNCHANGED apps
    /\ UNCHANGED decided

\* main.py 464-469
SuccessResponse(r) == OkResp(r.email, r.score, r.email_sent, r.email_message)

\* main.py 456-469 with save_application (39-56): the commit goes through, or it
\* raises and save_application rolls back and returns False (a value line 457
\* drops), or the rollback raises as well and the exception leaves save_application
Persist(p) ==
    /\ req[p].pc = "persist"
    /\ LET r == Called(req[p], "save_application")
       IN  \E outcome \in {"committed", "commit raises", "rollback raises"} :
             CASE outcome = "committed" ->
                    /\ apps' = save_application(apps, r.email, r.resume_content,
                                                r.job_description, r.score, r.email_sent)
                    /\ decided' = Append(decided,
                                          [score |-> r.score, email_status |-> r.email_sent,
                                           message |-> r.email_message])
                    /\ req' = [req EXCEPT ![p] =
                                 [r EXCEPT !.pc = "done", !.exit_stage = "persist",
                                           !.saved = "committed",
                                           !.resp = SuccessResponse(r)]]
                    /\ UNCHANGED error_logs
               [] outcome = "commit raises" ->
                    /\ req' = [req EXCEPT ![p] =
                                 [r EXCEPT !.pc = "done", !.exit_stage = "persist",
                                           !.saved = "rolled back",
                                           !.resp = SuccessResponse(r)]]
                    /\ UNCHANGED <<apps, error_logs, decided>>
               [] outcome = "rollback raises" ->
                    /\ EndError(p, [r EXCEPT !.saved = "raised"],
                                Exit(500, "Failed to save application to database", 0, 0),
                                500)
                    /\ UNCHANGED <<apps, decided>>

\* a handler that submits a failed request again by itself
Finish_retriesFailed(p) ==
    /\ req[p].pc = "done"
    /\ req' = [req EXCEPT ![p] =
                 IF req[p].resp.kind = "error" /\ error_logs < MaxLogs
                 THEN [IdleReq EXCEPT !.pc = "gate", !.filename = req[p].filename,
                                      !.content = req[p].content,
                                      !.job_description = req[p].job_description]
                 ELSE IdleReq]
    /\ UNCHANGED <<apps, error_logs, decided>>

\* the response has been returned; the handler is free again
Finish(p) ==
    /\ req[p].pc = "done"
    /\ req' = [req EXCEPT ![p] = IdleReq]
    /\ UNCHANGED <<apps, error_logs, decided>>

Stage(p) ==
    \/ FormatGate(p) \/ SaveUpload(p) \/ Extract(p) \/ Classify(p) \/ FindEmail(p)
    \/ Lookup(p) \/ Summarize(p) \/ Score(p) \/ Notify(p) \/ Persist(p) \/ Finish(p)

\* process_application is a coroutine without an await in its body: a worker's
\* event loop runs one request to its response before it takes the next
Serial == {p \in Procs : \A q \in Procs : p <= q}

Next == \E p \in Serial : Submit(p) \/ Stage(p)

Spec == Init /\ [][Next]_vars

\* every capability call of a stage returns or raises: a request that is in
\* flight takes its next stage
SubmitLive(p) == Arrives(p, MaxLiveRecords)

NextLive == \E p \in Serial : SubmitLive(p) \/ Stage(p)

SpecLive == Init /\ [][NextLive]_vars /\ \A p \in Serial : WF_vars(Stage(p))

\* ------------------------------------------------------------ tool calls
\* Every leaf function is registered with @mcp_server.tool() and can be called
\* on its own, outside process_application.

\* similarities a direct call of calculate_score may meet: below 0, either side
\* of 70, and above 100 by floating-point error of the cosine
ToolSimilarities == Similarities \cup { -12000, 100006 }

\* job summaries a direct call may be given: a summary, the empty one, the
\* sentinel of generate_summary and a str(e) it returned
ToolSummaries == { GoodSummary, <<>>, SummarySentinel, <<"connection", "refused">> }

\* main.py 264-315: validate_resume called directly; l is the log write of its
\* except clause
ToolValidateResume(p) ==
    /\ req[p].pc = "idle"
    /\ error_logs < MaxLogs
    /\ \E answer \in ClassifierAnswers \cup {NoMessage, Raises}, l \in BOOLEAN :
         LET call == [NoCall EXCEPT !.name = "validate_resume", !.answer = answer]
         IN  IF answer # Raises
             THEN /\ l
                  /\ req' = [req EXCEPT ![p].tool =
                               [call EXCEPT !.ended = "returned",
                                            !.bool = IsTrueAnswer(answer)]]
                  /\ UNCHANGED error_logs
             ELSE IF l
             THEN /\ req' = [req EXCEPT ![p].tool =
                               [call EXCEPT !.ended = "returned", !.bool = FALSE]]
                  /\ error_logs' = error_logs + 1
             ELSE /\ req' = [req EXCEPT ![p].tool = [call EXCEPT !.ended = "raised"]]
                  /\ UNCHANGED error_logs
    /\ UNCHANGED <<apps, decided>>

\* main.py 121-158: calculate_score called directly; l is the log write of its
\* except clause
ToolCalculateScore(p) ==
    /\ req[p].pc = "idle"
    /\ error_logs < MaxLogs
    /\ \E job_summary \in ToolSummaries :
         LET call == [NoCall EXCEPT !.name = "calculate_score",
                                    !.job_summary = job_summary]
         IN  IF SkipsEmbedding(job_summary)
             THEN /\ req' = [req EXCEPT ![p].tool =
                               [call EXCEPT !.ended = "returned float", !.value = 0]]
                  /\ UNCHANGED error_logs
             ELSE \E similarity \in ToolSimilarities, encodes \in BOOLEAN, l \in BOOLEAN :
                    LET embeds == [call EXCEPT !.embedded = TRUE]
                    IN  IF encodes
                        THEN /\ l
                             /\ req' = [req EXCEPT ![p].tool =
                                          [embeds EXCEPT !.ended = "returned float",
                                                         !.similarity = similarity,
                                                         !.value = FinalScore(similarity)]]
                             /\ UNCHANGED error_logs
                        ELSE IF l
                        THEN /\ req' = [req EXCEPT ![p].tool =
                                          [embeds EXCEPT !.ended = "returned str"]]
                             /\ error_logs' = error_logs + 1
                        ELSE /\ req' = [req EXCEPT ![p].tool =
                                          [embeds EXCEPT !.ended = "raised"]]
                             /\ UNCHANGED error_logs
    /\ UNCHANGED <<apps, decided>>

ToolCall(p) == ToolValidateResume(p) \/ ToolCalculateScore(p)

\* requests and direct tool calls, at one worker
NextTools == \E p \in Serial : Submit(p) \/ Stage(p) \/ ToolCall(p)

SpecTools == Init /\ [][NextTools]_vars

\* ------------------------------------------------------ concurrent requests
\* Two requests in flight at once. Inside one event loop process_application
\* runs from its first line to its response (no await), so the two handlers
\* stand for two worker processes serving the same app over the one
\* applications.db; each store function opens and closes a session of its
\* own, so a step of one worker can fall between any two store calls of the
\* other. Both requests carry the same file and job description and arrive
\* while the store is empty.
SameFile == <<"a", ".", "p", "d", "f">>
SameJob == <<"backend", "role">>

SubmitSame(p) ==
    /\ req[p].pc = "idle"
    /\ apps = <<>>
    /\ error_logs < MaxLogs
    /\ req' = [req EXCEPT ![p] =
                 [IdleReq EXCEPT !.pc = "gate", !.filename = SameFile,
                                 !.content = ResumeA1, !.job_description = SameJob]]
    /\ UNCHANGED <<apps, error_logs, decided>>

NextConcurrent == \E p \in Procs : SubmitSame(p) \/ Stage(p)

SpecConcurrent == Init /\ [][NextConcurrent]_vars

\* ------------------------------------------------------------------ claims
Hit(r) == r.existing_app # 0
Moves(p) == req'[p] # req[p]
UpToLookup == {"gate", "upload", "extract", "classify", "email", "lookup"}

C1_HitState ==
    \A p \in Procs :
      LET r == req[p]
      IN  (r.pc = "done" /\ Hit(r)) =>
            /\ r.resp.kind = "ok"
            /\ r.resp.score = apps[r.existing_app].score
            /\ r.resp.email_status = apps[r.existing_app].email_status
            /\ Matches(apps[r.existing_app], r.email, r.resume_content, r.job_description)
            /\ r.calls = <<"get_exact_application_match">>
            /\ r.nlogs = 0

C1_HitFrame ==
    \A p \in Procs :
      (Moves(p) /\ req[p].pc \in UpToLookup /\ (req[p].pc = "lookup" => Hit(req'[p]))) =>
         /\ apps' = apps
         /\ (req[p].pc = "lookup" => req'[p].pc = "done" /\ error_logs' = error_logs)

\* C1: a request whose exact-match lookup finds a stored row returns that row's
\* score and email_status, has invoked nothing but the lookup (no summary, score,
\* invitation, status update or save), and none of its steps changes the
\* applications table.
C1_ExactMatchReturnsStored == [](C1_HitState) /\ [][C1_HitFrame]_vars

C1_Witness ==
    \E p \in Procs :
      /\ req[p].pc = "done" /\ Hit(req[p])
      /\ req[p].resp.email_status = TRUE
      /\ Len(apps) = 2

RowsFor(r) ==
    {i \in DOMAIN apps : Matches(apps[i], r.email, r.resume_content, r.job_description)}

\* C2: a resubmission of a triple whose first submission succeeded gets the score
\* and the email_status of the first response, and the table then holds exactly
\* one row for the triple. (Stated on the row the first submission inserted:
\* decided holds what that submission's response carried.)
C2_ResubmissionSameDecision ==
    \A p \in Procs :
      LET r == req[p]
      IN  (r.pc = "done" /\ Hit(r)) =>
            /\ r.resp.score = decided[r.existing_app].score
            /\ r.resp.email_status = decided[r.existing_app].email_status
            /\ Cardinality(RowsFor(r)) = 1

AfterMiss == {"summarize", "score", "notify", "persist"}

C3_StoredRowsKept ==
    \A p \in Procs :
      ( /\ Moves(p)
        /\ req[p].pc \in AfterMiss
        /\ \E i \in DOMAIN apps : apps[i].email = req[p].email )
      => /\ Len(apps') >= Len(apps)
         /\ \A i \in DOMAIN apps : apps'[i] = apps[i]

\* C3: a request with the email of a stored row but another resume or job
\* description is a new decision; no step of it changes a field of a row that
\* was stored before.
C3_NewDecisionLeavesStoredRows == [][C3_StoredRowsKept]_vars

\* C4: when the commit of save_application fails the request ends with status
\* 500; a success response is returned only for a decision that is in the table.
C4_PersistFailureIsReported ==
    \A p \in Procs :
      LET r == req[p]
      IN  r.pc = "done" =>
            /\ (r.saved \in {"rolled back", "raised"} =>
                  r.resp.kind = "error" /\ r.resp.status = 500)
            /\ (r.resp.kind = "ok" => RowsFor(r) # {})

SummaryFailed(r) ==
    \/ r.job_summary = SummarySentinel
    \/ r.job_summary \in ExceptionTexts
    \/ "generate_summary" \in r.leafRaised

\* C5: a request whose summarizer call raised, or whose summary is the failure
\* sentinel, ends with status 422 (stated for the requests none of whose log
\* writes failed); no invitation is attempted and nothing is saved.
C5_SummaryFailureIsTerminal ==
    \A p \in Procs :
      LET r == req[p]
      IN  (r.pc = "done" /\ SummaryFailed(r) /\ r.logfails = 0) =>
            /\ r.resp.kind = "error" /\ r.resp.status = 422
            /\ Count(r.calls, "send_interview_invitation") = 0
            /\ Count(r.calls, "save_application") = 0

SendAttempted(r) == Count(r.calls, "send_email") > 0
SendSucceeded(r) == Count(r.calls, "update_email_status") > 0

\* C7: a request with score >= 70 whose send failed is not aborted: it invokes
\* save_application with email_status false, and its success response carries
\* email_status false and the failed-to-send message; when the send succeeded
\* save_application is invoked with email_status true.
C7_SendFailureDoesNotAbort ==
    \A p \in Procs :
      LET r == req[p]
      IN  (r.pc = "done" /\ SendAttempted(r)) =>
            /\ Count(r.calls, "save_application") = 1
            /\ r.email_sent = SendSucceeded(r)
            /\ (r.resp.kind = "ok" =>
                  /\ r.resp.email_status = SendSucceeded(r)
                  /\ r.resp.message =
                       (IF SendSucceeded(r) THEN Passed \o AndSent ELSE Passed \o ButFailed))

\* C8: a request for which validate_resume returned false, or extract_email the
\* empty string, ends with status 400 and has invoked neither the lookup nor any
\* later stage.
C8_RejectedDocumentsGet400 ==
    \A p \in Procs :
      LET r == req[p]
      IN  ( /\ r.pc = "done"
            /\ \/ r.exit_stage = "classify" /\ "validate_resume" \notin r.leafRaised
               \/ r.exit_stage = "email" )
          => /\ r.resp.kind = "error" /\ r.resp.status = 400
             /\ r.calls = <<>>

\* C9: every request that ends in an error response has appended at least one
\* error_logs row, even when none of its log writes failed.
C9_ErrorExitsAreLogged ==
    \A p \in Procs :
      LET r == req[p]
      IN  (r.pc = "done" /\ r.resp.kind = "error" /\ r.logfails = 0) => r.nlogs >= 1

\* C10: when a log write fails while a failure is reported, the response keeps
\* the status of that failure, and no leaf component raises.
C10_LogFailureDoesNotMask ==
    \A p \in Procs :
      LET r == req[p]
      IN  (r.pc = "done" /\ r.resp.kind = "error" /\ r.logfails > 0 /\ r.orig # 0) =>
            /\ r.resp.status = r.orig
            /\ r.leafRaised = {}

\* C11: the response to a resubmission of the same file and job description,
\* after the first submission succeeded, equals the first response in email,
\* score, email_status and message, and the resubmission adds no row.
C11_ResubmissionSameBody ==
    \A p \in Procs :
      LET r == req[p]
      IN  (r.pc = "done" /\ Hit(r)) =>
            /\ r.resp = OkResp(r.email,
                               decided[r.existing_app].score,
                               decided[r.existing_app].email_status,
                               decided[r.existing_app].message)
            /\ Len(apps) = Len(decided)

\* C12: validate_resume returns true iff the capability call succeeded and the
\* response is exactly the lowercase token true; for any other response (and a
\* missing message) it returns false and does not raise. The case of a failing
\* capability call is left to the log write, see C10.
C12_OnlyLiteralTrue ==
    \A p \in Procs :
      LET t == req[p].tool
      IN  (t.name = "validate_resume" /\ t.answer # Raises) =>
            /\ t.ended = "returned"
            /\ t.bool <=> t.answer = AnsTrue

\* C13: two concurrent requests for the same (email, resume_content,
\* job_description) against an empty store can both miss the lookup and both
\* save: nothing is held across lookup and insert, so a commit of
\* save_application by a request that missed adds a row for its triple even
\* when the other request has stored that triple in between.
C13_CommitAddsRow ==
    \A p \in Procs :
      (req[p].pc = "persist" /\ req'[p].saved = "committed") =>
        /\ req[p].existing_app = 0
        /\ Len(apps') = Len(apps) + 1
        /\ Matches(apps'[Len(apps')], req[p].email, req[p].resume_content,
                   req[p].job_description)

C13_UnguardedLookupThenInsert == [][C13_CommitAddsRow]_vars

\* both requests missed, both saved, and the store holds the triple twice
C13_Witness ==
    /\ Len(apps) = 2
    /\ Matches(apps[2], apps[1].email, apps[1].resume_content, apps[1].job_description)
    /\ \A p \in Procs :
         /\ req[p].pc = "done"
         /\ req[p].existing_app = 0
         /\ req[p].saved = "committed"
         /\ Count(req[p].calls, "get_exact_application_match") = 1

\* C14: every number calculate_score returns, and so the score of every stored
\* Application and of every success response, lies in [0, 100] (0..10000 in
\* hundredths).
ScoreRange == 0..10000

C14_ScoresInRange ==
    /\ \A p \in Procs :
         /\ (req[p].tool.name = "calculate_score" /\ req[p].tool.ended = "returned float")
              => req[p].tool.value \in ScoreRange
         /\ req[p].score # NoScore => req[p].score \in ScoreRange
         /\ req[p].resp.kind = "ok" => req[p].resp.score \in ScoreRange
    /\ \A i \in DOMAIN apps : apps[i].score \in ScoreRange

\* a similarity above 100 came back from the embedding and was clamped
C14_Witness ==
    \E p \in Procs :
      /\ req[p].tool.name = "calculate_score"
      /\ req[p].tool.embedded
      /\ req[p].tool.similarity > 100000
      /\ req[p].tool.value = 10000

\* C15: a failure of extract_text ends the request with a status that follows
\* the cause, 400 for an unsupported format and 422 for a recognized format the
\* reader could not parse, whatever the reader raised; nothing is persisted.
\* (Requests whose log writes all committed; for the others see C10.)
C15_ExtractStatusFollowsCause ==
    \A p \in Procs :
      LET r == req[p]
      IN  (r.pc = "done" /\ r.exit_stage = "extract" /\ r.logfails = 0) =>
            /\ r.resp.status = IF Reader(r.file_path) = "unsupported" THEN 400 ELSE 422
            /\ r.saved = ""
            /\ "save_application" \notin {r.calls[i] : i \in DOMAIN r.calls}

\* C16: when calculate_score returns a non-numeric value (the string of its
\* except clause) the request ends with 422; the threshold is not evaluated,
\* no notification is attempted and no Application is persisted.
CallsOf(r) == {r.calls[i] : i \in DOMAIN r.calls}

C16_NonNumericScoreIs422 ==
    \A p \in Procs :
      LET r == req[p]
      IN  (r.pc = "done" /\ r.exit_stage = "score"
             /\ "calculate_score" \notin r.leafRaised) =>
            /\ r.resp.status = 422
            /\ r.score = NoScore
            /\ "send_interview_invitation" \notin CallsOf(r)
            /\ "save_application" \notin CallsOf(r)

\* C17: a request whose filename ends in neither .pdf nor .docx ends at the
\* format gate with 400, appends exactly one ErrorLog row, writes no file under
\* uploads, invokes no later stage and adds no Application row.
C17_FormatGateRejects ==
    \A p \in Procs :
      LET r == req[p]
      IN  (r.pc = "done" /\ ~AcceptedFormat(r.filename)) =>
            /\ r.exit_stage = "gate"
            /\ r.resp.status = 400
            /\ r.nlogs = 1
            /\ r.file_path = <<>>
            /\ r.calls = <<>>
            /\ r.saved = ""

\* C18: update_email_status is invoked only by send_interview_invitation, only
\* after send_email returned True in that call, and only with status True; when
\* the send fails or is not attempted no stored row's email_status changes, and
\* the orchestrator sets the flag of a row only through the value it passes to
\* save_application.
C18_CalledAfterSend ==
    \A p \in Procs :
      LET calls == req[p].calls
      IN  \A i \in DOMAIN calls :
            calls[i] = "update_email_status" =>
              /\ i >= 3
              /\ calls[i - 1] = "send_email"
              /\ calls[i - 2] = "send_interview_invitation"

SentAndUpdated(p) ==
    /\ req[p].pc = "notify"
    /\ req'[p].calls =
         req[p].calls \o <<"send_interview_invitation", "send_email", "update_email_status">>
    /\ req'[p].email_sent

C18_FlagChanges ==
    /\ \A i \in DOMAIN apps :
         /\ i \in DOMAIN apps'
         /\ apps'[i] = [apps[i] EXCEPT !.email_status = apps'[i].email_status]
         /\ apps'[i].email_status # apps[i].email_status =>
              /\ apps'[i].email_status = TRUE
              /\ \E p \in Procs : SentAndUpdated(p) /\ apps[i].email = req[p].email
    /\ \A i \in DOMAIN apps' \ DOMAIN apps :
         \E p \in Procs :
           /\ req[p].pc = "persist"
           /\ req'[p].saved = "committed"
           /\ apps'[i].email_status = req[p].email_sent

C18_FlagOnlyThroughStore == [](C18_CalledAfterSend) /\ [][C18_FlagChanges]_vars

\* an invitation went out and the update turned on the flag of a row that was
\* stored with the flag off
C18_Witness ==
    \E p \in Procs, i \in DOMAIN apps :
      /\ req[p].pc = "persist"
      /\ "update_email_status" \in CallsOf(req[p])
      /\ apps[i].email = req[p].email
      /\ apps[i].email_status
      /\ ~decided[i].email_status

\* C19: calculate_score returns exactly 0.0 without invoking the embedding
\* capability whenever job_summary is empty or a failure result of
\* generate_summary, its 'Failed to extract requirements' string or the str(e)
\* it returns when the capability call raises.
C19_FailedSummaryScoresZero ==
    \A p \in Procs :
      LET r == req[p]
      IN  ("calculate_score" \in CallsOf(r)
             /\ r.job_summary \in {<<>>, SummarySentinel} \cup ExceptionTexts) =>
            /\ "encode" \notin CallsOf(r)
            /\ r.score = 0

\* C20: every filename the format gate accepts, whatever the case of its
\* extension, is read by extract_text with the PDF or DOCX reader; no upload is
\* saved under uploads and then rejected as an unsupported format.
C20_GateAndReaderAgree ==
    \A p \in Procs :
      LET r == req[p]
      IN  (r.pc = "done" /\ AcceptedFormat(r.filename) /\ r.file_path # <<>>
             /\ r.exit_stage = "extract" /\ r.logfails = 0) =>
            Reader(r.file_path) \in {"pdf", "docx"}

\* C21: when every capability call returns or raises, every request ends with
\* exactly one outcome, a success response or an error response, and no stage
\* is retried: each stage runs at most once per request and nothing follows
\* the response.
StageOrder ==
    <<"gate", "upload", "extract", "classify", "email", "lookup",
      "summarize", "score", "notify", "persist", "done">>

Rank(pc) == CHOOSE i \in DOMAIN StageOrder : StageOrder[i] = pc

OncePerRequest ==
    {"get_exact_application_match", "generate_summary", "calculate_score",
     "send_interview_invitation", "save_application"}

C21_OneOutcome ==
    \A p \in Procs :
      LET r == req[p]
      IN  /\ r.pc = "done" <=> r.resp.kind \in {"ok", "error"}
          /\ r.pc # "done" => r.resp = NoResp
          /\ \A f \in OncePerRequest : Count(r.calls, f) <= 1

C21_StagesAdvance ==
    \A p \in Procs :
      Moves(p) =>
        \/ req[p].pc = "idle" /\ req'[p].pc = "gate"
        \/ req[p].pc = "done" /\ req'[p] = IdleReq
        \/ /\ req[p].pc \notin {"idle", "done"}
           /\ req'[p].pc # "idle"
           /\ Rank(req'[p].pc) > Rank(req[p].pc)

C21_Terminates ==
    \A p \in Procs : (req[p].pc # "idle") ~> (req[p].pc = "done")

C21_TerminatesWithOneOutcome ==
    [](C21_OneOutcome) /\ [][C21_StagesAdvance]_vars /\ C21_Terminates

\* a request ran every stage once and returned its success response
C21_Witness ==
    \E p \in Procs :
      /\ req[p].pc = "done"
      /\ req[p].resp.kind = "ok"
      /\ req[p].calls =
           <<"get_exact_application_match", "generate_summary", "calculate_score",
             "encode", "send_interview_invitation", "send_email",
             "update_email_status", "save_application">>

====
